---- MODULE Spec2Model ----
(***************************************************************************)
(* A model of the Polygon.io example scripts of polygon_instructions.py:   *)
(*   - get_expiry_dates, the cursor-following pagination loop;             *)
(*   - AsyncPolygonClient.get_multiple_snapshots, the asyncio.gather       *)
(*     fan-out over _make_request;                                         *)
(*   - the WebSocket callbacks on_open and on_message;                     *)
(*   - get_option_ticker and AsyncPolygonClient.get_option_contracts;      *)
(*   - main of scripts/fetch_financials.py.                                *)
(* Each entry point is run on its own (prog); text is modelled as the      *)
(* sequence of its character codes, so that parsing a date and comparing   *)
(* two strings are computed, not assumed.                                  *)
(***************************************************************************)
EXTENDS Integers, Sequences, FiniteSets, TLC

VARIABLES
    prog,          \* the entry point that is running
    pc,            \* get_expiry_dates: "fetching", "waiting" or "done"
    next_url,      \* get_expiry_dates: the URL of the next request, or NoUrl
    expiry_dates,  \* get_expiry_dates: the accumulator (a Python set)
    requests,      \* number of session.get calls issued by get_expiry_dates
    chain,         \* the responses get_expiry_dates has received, in order
    chainLen,      \* the server's chain: its number of pages, 0 when endless
    stdout,        \* the lines get_expiry_dates has printed
    outcome,       \* how the running entry point ended
    contracts,     \* get_multiple_snapshots: the items it was given
    task,          \* get_multiple_snapshots: the state of each task
    answer,        \* get_multiple_snapshots: the response each task received
    results,       \* get_multiple_snapshots: what each task returned
    snapshots,     \* get_multiple_snapshots: the list it returned
    ws_open,       \* whether the WebSocket connection is open
    wire,          \* per connection opened, the messages sent on it
    frame,         \* the last message given to on_message
    calls,         \* the handler calls on_message made for it
    ws_err,        \* whether on_message printed "Error processing message"
    tk,            \* get_option_ticker: its arguments and its result
    oc,            \* get_option_contracts: the listing, the response, the result
    fin            \* fetch_financials.main: its environment and its result

vars == <<prog, pc, next_url, expiry_dates, requests, chain, chainLen, stdout,
          outcome, contracts, task, answer, results, snapshots, ws_open, wire,
          frame, calls, ws_err, tk, oc, fin>>

----------------------------------------------------------------------------
(* Bounds of the model. *)

MaxPages == 3
MaxRecords == 3
MaxLimit == 2
MaxItems == 3
MaxOpens == 2
MaxFrameLen == 2
MaxContracts == 2

----------------------------------------------------------------------------
(* Text: a string is the sequence of its character codes. *)

Dash == 45

IsDigit(c) == c \in 48..57

RECURSIVE Val(_)
\* int() of a string of digits
Val(s) ==
    IF s = <<>> THEN 0
    ELSE Val(SubSeq(s, 1, Len(s) - 1)) * 10 + (s[Len(s)] - 48)

AllDigits(s) == \A i \in 1..Len(s) : IsDigit(s[i])

RECURSIVE StrLT(_, _)
\* Python's < on str: by code point, a proper prefix first
StrLT(a, b) ==
    IF b = <<>> THEN FALSE
    ELSE IF a = <<>> THEN TRUE
    ELSE IF a[1] # b[1] THEN a[1] < b[1]
    ELSE StrLT(Tail(a), Tail(b))

RECURSIVE sorted(_)
\* sorted(list(S)) of a set of strings
sorted(S) ==
    IF S = {} THEN <<>>
    ELSE LET m == CHOOSE x \in S : \A y \in S \ {x} : StrLT(x, y)
         IN  <<m>> \o sorted(S \ {m})

\* str.lower() on ASCII text
lower(s) == [i \in 1..Len(s) |-> IF s[i] \in 65..90 THEN s[i] + 32 ELSE s[i]]

----------------------------------------------------------------------------
(* Dates. *)

\* "2025-01-24"
START_DATE == <<50, 48, 50, 53, 45, 48, 49, 45, 50, 52>>
\* "2025-12-19"
END_DATE == <<50, 48, 50, 53, 45, 49, 50, 45, 49, 57>>

\* "2025-01-23", the day before START_DATE
D_0123 == <<50, 48, 50, 53, 45, 48, 49, 45, 50, 51>>
\* "2025-12-20", the day after END_DATE
D_1220 == <<50, 48, 50, 53, 45, 49, 50, 45, 50, 48>>
\* "2025-2-1", in range and not zero-padded
D_21 == <<50, 48, 50, 53, 45, 50, 45, 49>>
\* "2025-13-01", which no date matches
D_BAD == <<50, 48, 50, 53, 45, 49, 51, 45, 48, 49>>
\* contract.get('expiration_date') of a contract without one: None (or "")
NoDate == <<>>

Expirations == {START_DATE, END_DATE, D_0123, D_1220, D_21, D_BAD, NoDate}

IsLeap(y) == (y % 4 = 0 /\ y % 100 # 0) \/ y % 400 = 0

DaysIn(y, m) ==
    IF m = 2 THEN (IF IsLeap(y) THEN 29 ELSE 28)
    ELSE IF m \in {4, 6, 9, 11} THEN 30 ELSE 31

NoDatetime == [ok |-> FALSE, y |-> 0, m |-> 0, d |-> 0]

\* datetime.strptime(s, "%Y-%m-%d"): four digits, a month of one or two
\* digits, a day of one or two digits; ok = FALSE stands for ValueError
strptime(s) ==
    IF Len(s) < 8 \/ Len(s) > 10 THEN NoDatetime
    ELSE IF s[5] # Dash \/ ~AllDigits(SubSeq(s, 1, 4)) THEN NoDatetime
    ELSE
      LET rest == SubSeq(s, 6, Len(s))
          cut == {i \in 2..3 : i < Len(rest) /\ rest[i] = Dash
                               /\ AllDigits(SubSeq(rest, 1, i - 1))}
      IN  IF cut = {} THEN NoDatetime
          ELSE
            LET i == CHOOSE j \in cut : TRUE
                ms == SubSeq(rest, 1, i - 1)
                ds == SubSeq(rest, i + 1, Len(rest))
                y == Val(SubSeq(s, 1, 4))
                m == Val(ms)
                d == Val(ds)
            IN  IF /\ Len(ds) \in 1..2
                   /\ AllDigits(ds)
                   /\ m \in 1..12
                   /\ y >= 1
                   /\ d >= 1
                   /\ d <= DaysIn(y, m)
                THEN [ok |-> TRUE, y |-> y, m |-> m, d |-> d]
                ELSE NoDatetime

\* a <= b on two datetimes
DateLE(a, b) ==
    \/ a.y < b.y
    \/ a.y = b.y /\ a.m < b.m
    \/ a.y = b.y /\ a.m = b.m /\ a.d <= b.d

\* InRange without the upper bound
InRangeNoEnd(expiry) == DateLE(strptime(START_DATE), strptime(expiry))

\* start_date <= expiry_date <= end_date
InRange(expiry) ==
    /\ DateLE(strptime(START_DATE), strptime(expiry))
    /\ DateLE(strptime(expiry), strptime(END_DATE))

----------------------------------------------------------------------------
(* get_expiry_dates: the pagination loop. *)

\* a URL: the page its cursor names, and whether it carries &apiKey=
NoUrl == [cursor |-> 0, key |-> FALSE]

\* the first URL, built from BASE_URL, SYMBOL and API_KEY
FirstUrl == [cursor |-> 1, key |-> TRUE]

\* Truthy as in a "while True" loop that never tests the cursor
TruthyAlways(url) == TRUE

\* the truth value of a URL in "while next_url" and "if next_url": None and
\* the empty string are false
Truthy(url) == url # NoUrl

\* f"{next_url}&apiKey={API_KEY}"
WithKey(url) == [cursor |-> url.cursor, key |-> TRUE]

Contracts == [expiration_date : Expirations]

\* the result lists a page may carry, of at most n contracts
PageResults(n) == UNION {[1..k -> Contracts] : k \in 0..n}

BadStatuses == {"ERROR", "NOT_AUTHORIZED"}

\* data.get('next_url') of page i of the server's chain
ServerNext(i) ==
    IF chainLen = 0 \/ i < chainLen
    THEN [cursor |-> i + 1, key |-> FALSE]
    ELSE NoUrl

RECURSIVE AddDates(_, _)
\* the for loop over data.get('results', []): the accumulator after it, and
\* whether strptime raised on the way
AddDates(acc, page) ==
    IF page = <<>> THEN [dates |-> acc, raised |-> FALSE]
    ELSE LET expiry == page[1].expiration_date
         IN  IF expiry = NoDate THEN AddDates(acc, Tail(page))
             ELSE IF ~strptime(expiry).ok THEN [dates |-> acc, raised |-> TRUE]
             ELSE IF InRange(expiry) THEN AddDates(acc \cup {expiry}, Tail(page))
             ELSE AddDates(acc, Tail(page))

Line(k, st, s, n) == [k |-> k, st |-> st, s |-> s, n |-> n]

\* print(f"Error: API returned status {data.get('status')}")
StatusLine(st) == Line("status_error", st, <<>>, 0)

\* print(f"Error fetching data: {str(e)}")
ExceptionLine == Line("exception", "", <<>>, 0)

\* Report with sorted(..., reverse=True)
ReportReversed(dates) ==
    LET sorted_dates == sorted(dates)
        n == Len(sorted_dates)
    IN  <<Line("header", "", <<>>, 0), Line("rule", "", <<>>, 0)>>
        \o [i \in 1..n |-> Line("date", "", sorted_dates[n + 1 - i], 0)]
        \o <<Line("total", "", <<>>, n)>>

\* the report printed once the loop has ended: the header, the rule, the
\* dates in sorted order, the total
Report(dates) ==
    LET sorted_dates == sorted(dates)
    IN  <<Line("header", "", <<>>, 0), Line("rule", "", <<>>, 0)>>
        \o [i \in 1..Len(sorted_dates) |-> Line("date", "", sorted_dates[i], 0)]
        \o <<Line("total", "", <<>>, Len(sorted_dates))>>

RECURSIVE AllRecords(_)
\* the results of the pages received so far, in arrival order
AllRecords(pages) ==
    IF pages = <<>> THEN <<>>
    ELSE AllRecords(SubSeq(pages, 1, Len(pages) - 1)) \o pages[Len(pages)].results

Page(kind, st, res, nxt) ==
    [kind |-> kind, status |-> st, results |-> res, next_url |-> nxt]

\* the except clause: print the error, fall off the end of the function
Excepted(page, dates) ==
    /\ chain' = Append(chain, page)
    /\ expiry_dates' = dates
    /\ stdout' = Append(stdout, ExceptionLine)
    /\ pc' = "done"
    /\ outcome' = "returned"
    /\ UNCHANGED <<next_url>>

\* SendRequest that also issues the request of the page after, ahead of
\* the response
SendRequestPrefetch ==
    /\ prog = "expiry"
    /\ pc = "fetching"
    /\ Truthy(next_url)
    /\ requests < MaxPages
    /\ requests' = requests + 2
    /\ pc' = "waiting"
    /\ UNCHANGED <<prog, next_url, expiry_dates, chain, chainLen, stdout,
                   outcome, contracts, task, answer, results, snapshots,
                   ws_open, wire, frame, calls, ws_err, tk, oc, fin>>

\* SendRequest with a page limit of MaxLimit, failing once it is reached
SendRequestLimited ==
    /\ prog = "expiry"
    /\ pc = "fetching"
    /\ Truthy(next_url)
    /\ requests < MaxPages
    /\ IF requests < MaxLimit
       THEN /\ requests' = requests + 1
            /\ pc' = "waiting"
            /\ UNCHANGED outcome
       ELSE /\ pc' = "done"
            /\ outcome' = "PaginationLimitExceeded"
            /\ UNCHANGED requests
    /\ UNCHANGED <<prog, next_url, expiry_dates, chain, chainLen, stdout,
                   contracts, task, answer, results, snapshots,
                   ws_open, wire, frame, calls, ws_err, tk, oc, fin>>

\* while next_url: session.get(next_url) is issued and awaited
SendRequest ==
    /\ prog = "expiry"
    /\ pc = "fetching"
    /\ Truthy(next_url)
    /\ requests < MaxPages
    /\ requests' = requests + 1
    /\ pc' = "waiting"
    /\ UNCHANGED <<prog, next_url, expiry_dates, chain, chainLen, stdout,
                   outcome, contracts, task, answer, results, snapshots,
                   ws_open, wire, frame, calls, ws_err, tk, oc, fin>>

\* session.get or response.json() raises
ReceiveException ==
    /\ prog = "expiry"
    /\ pc = "waiting"
    /\ Excepted(Page("exception", "", <<>>, NoUrl), expiry_dates)
    /\ UNCHANGED <<prog, requests, chainLen, contracts, task, answer, results,
                   snapshots, ws_open, wire, frame, calls, ws_err, tk, oc, fin>>

\* ReceiveBadStatus with break in place of return: the report follows
ReceiveBadStatusBreak ==
    /\ prog = "expiry"
    /\ pc = "waiting"
    /\ \E st \in BadStatuses :
         /\ chain' = Append(chain, Page("bad", st, <<>>, NoUrl))
         /\ stdout' = Append(stdout, StatusLine(st)) \o Report(expiry_dates)
    /\ pc' = "done"
    /\ outcome' = "returned"
    /\ UNCHANGED <<prog, next_url, expiry_dates, requests, chainLen, contracts,
                   task, answer, results, snapshots, ws_open, wire, frame,
                   calls, ws_err, tk, oc, fin>>

\* the response reports a status other than OK: print it and return
ReceiveBadStatus ==
    /\ prog = "expiry"
    /\ pc = "waiting"
    /\ \E st \in BadStatuses :
         /\ chain' = Append(chain, Page("bad", st, <<>>, NoUrl))
         /\ stdout' = Append(stdout, StatusLine(st))
    /\ pc' = "done"
    /\ outcome' = "returned"
    /\ UNCHANGED <<prog, next_url, expiry_dates, requests, chainLen, contracts,
                   task, answer, results, snapshots, ws_open, wire, frame,
                   calls, ws_err, tk, oc, fin>>

\* the response reports OK: the rest of the loop body, and what follows the
\* loop when the page carries no next_url
ReceiveOK ==
    /\ prog = "expiry"
    /\ pc = "waiting"
    /\ next_url.key
    /\ \E res \in PageResults(MaxRecords - Len(AllRecords(chain))) :
         LET nxt == ServerNext(next_url.cursor)
             page == Page("ok", "OK", res, nxt)
             added == AddDates(expiry_dates, res)
         IN  IF added.raised THEN Excepted(page, added.dates)
             ELSE /\ chain' = Append(chain, page)
                  /\ expiry_dates' = added.dates
                  /\ next_url' = IF Truthy(nxt) THEN WithKey(nxt) ELSE nxt
                  /\ IF Truthy(next_url')
                     THEN /\ pc' = "fetching"
                          /\ UNCHANGED <<stdout, outcome>>
                     ELSE /\ pc' = "done"
                          /\ stdout' = stdout \o Report(added.dates)
                          /\ outcome' = "returned"
    /\ UNCHANGED <<prog, requests, chainLen, contracts, task, answer, results,
                   snapshots, ws_open, wire, frame, calls, ws_err, tk, oc, fin>>

----------------------------------------------------------------------------
(* AsyncPolygonClient: _make_request, get_option_snapshot,                 *)
(* get_multiple_snapshots.                                                 *)

\* Python's None where a snapshot is expected
NoneVal == [isNone |-> TRUE, ticker |-> 0]

Snapshot(t) == [isNone |-> FALSE, ticker |-> t]

\* the contracts given to get_multiple_snapshots: k dicts with
\* 'underlying_ticker' and 'ticker'
ContractList(k) == [i \in 1..k |-> [underlying_ticker |-> "SPY", ticker |-> i]]

\* the URL get_option_snapshot builds
SnapshotUrl(underlying, option_symbol) ==
    [underlying |-> underlying, option_symbol |-> option_symbol]

NoAnswer == [kind |-> "none", status |-> "", results |-> NoneVal]

\* what may come back for a URL: an exception out of session.get or
\* response.json(), a body whose status is not OK (without results, or, as
\* for DELAYED, with them), an OK body with the snapshot, an OK body whose
\* 'results' is null or absent
Answers(url) ==
    {[kind |-> "exception", status |-> "", results |-> NoneVal],
     [kind |-> "json", status |-> "ERROR", results |-> NoneVal],
     [kind |-> "json", status |-> "DELAYED", results |-> Snapshot(url.option_symbol)],
     [kind |-> "json", status |-> "OK", results |-> Snapshot(url.option_symbol)],
     [kind |-> "json", status |-> "OK", results |-> NoneVal]}

\* _make_request without the status test
MakeRequestAnyStatus(resp) ==
    IF resp.kind = "exception" THEN NoneVal ELSE resp.results

\* _make_request: data.get('results') of an OK body, None otherwise
MakeRequest(resp) ==
    IF resp.kind = "exception" THEN NoneVal
    ELSE IF resp.status = "OK" THEN resp.results
    ELSE NoneVal

Items == 1..Len(contracts)

InFlight == Cardinality({i \in Items : task[i] = "inflight"})

\* ReadyTasks under a semaphore of MaxLimit permits: a task that finds no
\* permit free waits for one
ReadyTasksLimited ==
    {i \in 1..Len(contracts) :
       /\ task[i] = "pending"
       /\ Cardinality({j \in 1..Len(contracts) : task[j] = "inflight"}) < MaxLimit}

\* the tasks the event loop holds ready to take their first step:
\* asyncio.gather(*tasks) schedules every one of them at once
ReadyTasks == {i \in Items : task[i] = "pending"}

\* whether task i may take its first step: the loop runs the ready tasks in
\* the order gather created them
MayStart(i) ==
    /\ i \in ReadyTasks
    /\ \A j \in ReadyTasks : i <= j

\* the first step of task i: get_option_snapshot builds its URL and
\* _make_request issues session.get
StartTask(i) ==
    /\ prog = "snapshots"
    /\ outcome = "running"
    /\ MayStart(i)
    /\ task' = [task EXCEPT ![i] = "inflight"]
    /\ UNCHANGED <<prog, pc, next_url, expiry_dates, requests, chain, chainLen,
                   stdout, outcome, contracts, answer, results, snapshots,
                   ws_open, wire, frame, calls, ws_err, tk, oc, fin>>

\* the response of task i arrives and _make_request returns; the event
\* loop polls for responses only when no task is ready to run
TaskResponse(i) ==
    /\ prog = "snapshots"
    /\ task[i] = "inflight"
    /\ ReadyTasks = {}
    /\ \E resp \in Answers(SnapshotUrl(contracts[i].underlying_ticker,
                                       contracts[i].ticker)) :
         /\ answer' = [answer EXCEPT ![i] = resp]
         /\ results' = [results EXCEPT ![i] = MakeRequest(resp)]
    /\ task' = [task EXCEPT ![i] = "done"]
    /\ UNCHANGED <<prog, pc, next_url, expiry_dates, requests, chain, chainLen,
                   stdout, outcome, contracts, snapshots, ws_open, wire, frame,
                   calls, ws_err, tk, oc, fin>>

\* [r for r in results if r is not None]
NotNone(rs) == SelectSeq(rs, LAMBDA r : ~r.isNone)

\* asyncio.gather returns once every task is done, and the list is filtered
GatherReturn ==
    /\ prog = "snapshots"
    /\ outcome = "running"
    /\ \A i \in Items : task[i] = "done"
    /\ snapshots' = NotNone(results)
    /\ outcome' = "returned"
    /\ UNCHANGED <<prog, pc, next_url, expiry_dates, requests, chain, chainLen,
                   stdout, contracts, task, answer, results, ws_open, wire,
                   frame, calls, ws_err, tk, oc, fin>>

----------------------------------------------------------------------------
(* The WebSocket callbacks. *)

\* dict.get of a key the dict does not hold
NoneNum == -1

Event(ev, sym, p, s, bp, ap) ==
    [isMap |-> TRUE, ev |-> ev, sym |-> sym, p |-> p, s |-> s, bp |-> bp, ap |-> ap]

\* the items a decoded frame may hold: a trade, a record tagged T that holds
\* the fields of a quote, a quote, a record with another tag, a record with
\* no tag, and an item that is no dict
Trade == Event("T", "AAPL", 15020, 100, NoneNum, NoneNum)
OddTrade == Event("T", "MSFT", NoneNum, NoneNum, 30010, 30020)
Quote == Event("Q", "AAPL", NoneNum, NoneNum, 15010, 15030)
Other == Event("X", "None", NoneNum, NoneNum, NoneNum, NoneNum)
Untagged == Event("None", "AAPL", 15020, 100, NoneNum, NoneNum)
NotADict ==
    [isMap |-> FALSE, ev |-> "None", sym |-> "None", p |-> NoneNum,
     s |-> NoneNum, bp |-> NoneNum, ap |-> NoneNum]

FrameItems == {Trade, OddTrade, Quote, Other, Untagged, NotADict}

\* the messages on_message may be given: text json.loads rejects, a JSON
\* value that is no list, a list of items
Messages ==
    {[valid |-> FALSE, isList |-> FALSE, items |-> <<>>],
     [valid |-> TRUE, isList |-> FALSE, items |-> <<>>]}
    \cup {[valid |-> TRUE, isList |-> TRUE, items |-> its] :
            its \in UNION {[1..k -> FrameItems] : k \in 0..MaxFrameLen}}

NoMessage == [valid |-> TRUE, isList |-> FALSE, items |-> <<>>]

\* handle_trade: what it reads and prints
handle_trade(trade_data) ==
    [h |-> "trade", symbol |-> trade_data.sym, a |-> trade_data.p,
     b |-> trade_data.s]

\* handle_quote: what it reads and prints
handle_quote(quote_data) ==
    [h |-> "quote", symbol |-> quote_data.sym, a |-> quote_data.bp,
     b |-> quote_data.ap]

\* Route that also looks at the fields an item holds
RouteByFields(item) ==
    IF item.ev = "T" /\ item.p # NoneNum THEN <<handle_trade(item)>>
    ELSE IF item.ev = "Q" \/ item.bp # NoneNum THEN <<handle_quote(item)>>
    ELSE <<>>

\* the handler calls one item leads to
Route(item) ==
    IF item.ev = "T" THEN <<handle_trade(item)>>
    ELSE IF item.ev = "Q" THEN <<handle_quote(item)>>
    ELSE <<>>

RECURSIVE Dispatch(_, _)
\* for item in data: the calls made, and whether item.get raised on the way
Dispatch(items, made) ==
    IF items = <<>> THEN [calls |-> made, raised |-> FALSE]
    ELSE IF ~items[1].isMap THEN [calls |-> made, raised |-> TRUE]
    ELSE Dispatch(Tail(items), made \o Route(items[1]))

\* on_message, as the calls it makes and whether its except clause printed
on_message(message) ==
    IF ~message.valid THEN [calls |-> <<>>, raised |-> TRUE]
    ELSE IF ~message.isList THEN [calls |-> <<>>, raised |-> FALSE]
    ELSE Dispatch(message.items, <<>>)

AuthMsg == [action |-> "auth", params |-> "API_KEY"]

SubscribeMsg == [action |-> "subscribe", params |-> "T.AAPL"]

\* on_open with the two sends in the other order
on_open_swapped == <<SubscribeMsg, AuthMsg>>

\* on_open: the two ws.send calls, in order
on_open == <<AuthMsg, SubscribeMsg>>

\* the connection opens and the library calls on_open
OnOpen ==
    /\ prog = "websocket"
    /\ ~ws_open
    /\ Len(wire) < MaxOpens
    /\ ws_open' = TRUE
    /\ wire' = Append(wire, on_open)
    /\ UNCHANGED <<prog, pc, next_url, expiry_dates, requests, chain, chainLen,
                   stdout, outcome, contracts, task, answer, results,
                   snapshots, frame, calls, ws_err, tk, oc, fin>>

\* a message arrives on the open connection and the library calls on_message
OnMessage ==
    /\ prog = "websocket"
    /\ ws_open
    /\ \E message \in Messages :
         LET r == on_message(message)
         IN  /\ frame' = message
             /\ calls' = r.calls
             /\ ws_err' = r.raised
    /\ UNCHANGED <<prog, pc, next_url, expiry_dates, requests, chain, chainLen,
                   stdout, outcome, contracts, task, answer, results,
                   snapshots, ws_open, wire, tk, oc, fin>>

\* the connection closes; on_close only prints
OnClose ==
    /\ prog = "websocket"
    /\ ws_open
    /\ ws_open' = FALSE
    /\ UNCHANGED <<prog, pc, next_url, expiry_dates, requests, chain, chainLen,
                   stdout, outcome, contracts, task, answer, results,
                   snapshots, wire, frame, calls, ws_err, tk, oc, fin>>

----------------------------------------------------------------------------
(* get_option_ticker. *)

\* "call", "put"
CALL == <<99, 97, 108, 108>>
PUT == <<112, 117, 116>>

\* the option_type arguments tried: "call", "put", "CALL", "Put", "both"
OptionTypes ==
    {CALL, PUT, <<67, 65, 76, 76>>, <<80, 117, 116>>, <<98, 111, 116, 104>>}

\* what client.list_options_contracts does: it raises, or it yields the
\* tickers of the matching contracts
Listings ==
    {[raises |-> TRUE, tickers |-> <<>>]}
    \cup {[raises |-> FALSE, tickers |-> ts] :
            ts \in UNION {[1..k -> 1..2] : k \in 0..MaxContracts}}

NoResult == [raised |-> "none", value |-> 0]

\* the body of the try block: the exception it raises, or the ticker
TryBlock(listing) ==
    IF listing.raises THEN [raised |-> "Exception", value |-> 0]
    ELSE IF listing.tickers = <<>> THEN [raised |-> "ValueError", value |-> 0]
    ELSE [raised |-> "none", value |-> listing.tickers[1]]

\* except Exception as e: raise RuntimeError(...)
ExceptClause(r) ==
    IF r.raised # "none" THEN [raised |-> "RuntimeError", value |-> 0] ELSE r

\* get_option_ticker: the exception it raises, or the ticker it returns
get_option_ticker(option_type, api_key, env_key, listing) ==
    IF lower(option_type) \notin {CALL, PUT}
    THEN [raised |-> "ValueError", value |-> 0]
    ELSE IF api_key = "None" /\ env_key = "None"
    THEN [raised |-> "ValueError", value |-> 0]
    ELSE ExceptClause(TryBlock(listing))

NoCall ==
    [called |-> FALSE, option_type |-> <<>>, api_key |-> "None",
     env_key |-> "None", listing |-> [raises |-> FALSE, tickers |-> <<>>],
     result |-> NoResult]

\* one call of get_option_ticker
GetOptionTicker ==
    /\ prog = "ticker"
    /\ ~tk.called
    /\ \E option_type \in OptionTypes, api_key \in {"None", "KEY"},
          env_key \in {"None", "KEY"}, listing \in Listings :
         tk' = [called |-> TRUE, option_type |-> option_type,
                api_key |-> api_key, env_key |-> env_key, listing |-> listing,
                result |-> get_option_ticker(option_type, api_key, env_key,
                                             listing)]
    /\ UNCHANGED <<prog, pc, next_url, expiry_dates, requests, chain, chainLen,
                   stdout, outcome, contracts, task, answer, results,
                   snapshots, ws_open, wire, frame, calls, ws_err, oc, fin>>

----------------------------------------------------------------------------
(* AsyncPolygonClient.get_option_contracts. *)

\* a contract listing of the server: per page, the tickers of its contracts,
\* numbered through the pages
ListingPages ==
    UNION {[1..n -> 1..MaxContracts] : n \in 1..MaxPages}

RECURSIVE PageStart(_, _)
\* the number of contracts on the pages before page i
PageStart(sizes, i) ==
    IF i <= 1 THEN 0 ELSE PageStart(sizes, i - 1) + sizes[i - 1]

\* the contracts page i of the listing holds
PageContracts(sizes, i) ==
    [j \in 1..sizes[i] |->
        [underlying_ticker |-> "SPY", ticker |-> PageStart(sizes, i) + j]]

\* a list where a snapshot or None may stand
ListVal(items) == [isNone |-> FALSE, items |-> items]

\* what may come back for the URL get_option_contracts builds, the first
\* page of the listing: an exception, a body whose status is not OK, or the
\* OK body of page 1, with a next_url when the listing goes on
ContractAnswers(sizes) ==
    {[kind |-> "exception", status |-> "", results |-> NoneVal, next_url |-> NoUrl],
     [kind |-> "json", status |-> "ERROR", results |-> NoneVal, next_url |-> NoUrl],
     [kind |-> "json", status |-> "OK",
      results |-> ListVal(PageContracts(sizes, 1)),
      next_url |-> IF Len(sizes) > 1 THEN [cursor |-> 2, key |-> FALSE] ELSE NoUrl]}

\* get_option_contracts: one _make_request for the URL it builds
get_option_contracts(resp) == MakeRequest(resp)

NoContractsCall ==
    [called |-> FALSE, sizes |-> <<>>, answer |-> NoAnswer, returned |-> NoneVal,
     requests |-> 0]

\* one call of get_option_contracts
GetOptionContracts ==
    /\ prog = "contracts"
    /\ ~oc.called
    /\ \E sizes \in ListingPages :
         \E resp \in ContractAnswers(sizes) :
            oc' = [called |-> TRUE, sizes |-> sizes, answer |-> resp,
                   returned |-> get_option_contracts(resp), requests |-> 1]
    /\ UNCHANGED <<prog, pc, next_url, expiry_dates, requests, chain, chainLen,
                   stdout, outcome, contracts, task, answer, results,
                   snapshots, ws_open, wire, frame, calls, ws_err, tk, fin>>

----------------------------------------------------------------------------
(* scripts/fetch_financials.py: main. *)

\* os.getenv("POLYGON_API_KEY") after load_dotenv(override=False): the
\* variable of the environment when it is set, even to "", else the one of
\* the .env file when python-dotenv is installed and the file holds one
getenv(env_key, has_dotenv, dotenv_key) ==
    IF env_key # "unset" THEN env_key
    ELSE IF has_dotenv THEN dotenv_key
    ELSE "unset"

\* not api_key
NotKey(api_key) == api_key \in {"unset", ""}

\* what urlopen and json.load may do: a payload, an HTTPError, a URLError,
\* a body that is no JSON
Fetches ==
    {[kind |-> "ok", payload |-> "payload1"],
     [kind |-> "ok", payload |-> "payload2"],
     [kind |-> "HTTPError", payload |-> ""],
     [kind |-> "URLError", payload |-> ""],
     [kind |-> "JSONDecodeError", payload |-> ""]}

\* isinstance: urllib.error.HTTPError is a subclass of URLError
IsInstance(exc, cls) ==
    \/ exc = cls
    \/ exc = "HTTPError" /\ cls = "URLError"

\* the except clauses with URLError first
ExceptClausesSwapped(exc) ==
    IF IsInstance(exc, "URLError") THEN "3"
    ELSE IF IsInstance(exc, "HTTPError") THEN "2"
    ELSE "raised"

\* the except clauses of main, in order: what main returns, or "raised" when
\* no clause catches the exception
ExceptClauses(exc) ==
    IF IsInstance(exc, "HTTPError") THEN "2"
    ELSE IF IsInstance(exc, "URLError") THEN "3"
    ELSE "raised"

\* main: its return value, the requests it made, the file it leaves
main(api_key, fetch, file) ==
    IF NotKey(api_key) THEN [ret |-> "1", requests |-> 0, file |-> file]
    ELSE IF fetch.kind # "ok"
    THEN [ret |-> ExceptClauses(fetch.kind), requests |-> 1, file |-> file]
    ELSE [ret |-> "0", requests |-> 1, file |-> fetch.payload]

\* the state before main runs: msft-financials.json is absent or holds "old"
NotRun(file) ==
    [ran |-> FALSE, env_key |-> "unset", has_dotenv |-> FALSE,
     dotenv_key |-> "unset", fetch |-> [kind |-> "ok", payload |-> ""],
     before |-> file, file |-> file, ret |-> "", requests |-> 0]

\* one run of main
Main ==
    /\ prog = "financials"
    /\ ~fin.ran
    /\ \E env_key \in {"unset", "", "KEY"}, has_dotenv \in BOOLEAN,
          dotenv_key \in {"unset", "", "FILEKEY"}, fetch \in Fetches :
         LET r == main(getenv(env_key, has_dotenv, dotenv_key), fetch, fin.file)
         IN  fin' = [ran |-> TRUE, env_key |-> env_key,
                     has_dotenv |-> has_dotenv, dotenv_key |-> dotenv_key,
                     fetch |-> fetch, before |-> fin.file, file |-> r.file,
                     ret |-> r.ret, requests |-> r.requests]
    /\ UNCHANGED <<prog, pc, next_url, expiry_dates, requests, chain, chainLen,
                   stdout, outcome, contracts, task, answer, results,
                   snapshots, ws_open, wire, frame, calls, ws_err, tk, oc>>

----------------------------------------------------------------------------
(* The specification. *)

Progs == {"expiry", "snapshots", "websocket", "ticker", "contracts",
          "financials"}

Init ==
    /\ prog \in Progs
    /\ pc = "fetching"
    /\ next_url = FirstUrl
    /\ expiry_dates = {}
    /\ requests = 0
    /\ chain = <<>>
    /\ chainLen \in IF prog = "expiry" THEN 0..MaxPages ELSE {1}
    /\ stdout = <<>>
    /\ outcome = "running"
    /\ contracts \in IF prog = "snapshots"
                     THEN {ContractList(k) : k \in 0..MaxItems}
                     ELSE {<<>>}
    /\ task = [i \in 1..Len(contracts) |-> "pending"]
    /\ answer = [i \in 1..Len(contracts) |-> NoAnswer]
    /\ results = [i \in 1..Len(contracts) |-> NoneVal]
    /\ snapshots = <<>>
    /\ ws_open = FALSE
    /\ wire = <<>>
    /\ frame = NoMessage
    /\ calls = <<>>
    /\ ws_err = FALSE
    /\ tk = NoCall
    /\ oc = NoContractsCall
    /\ fin \in IF prog = "financials"
               THEN {NotRun("absent"), NotRun("old")}
               ELSE {NotRun("absent")}

Next ==
    \/ SendRequest
    \/ ReceiveException
    \/ ReceiveBadStatus
    \/ ReceiveOK
    \/ \E i \in Items : StartTask(i)
    \/ \E i \in Items : TaskResponse(i)
    \/ GatherReturn
    \/ OnOpen
    \/ OnMessage
    \/ OnClose
    \/ GetOptionTicker
    \/ GetOptionContracts
    \/ Main

Spec == Init /\ [][Next]_vars

\* the event loop runs the step of get_expiry_dates that is ready, and no
\* request stays in flight for ever: if no response ends it, the session's
\* timeout does, as an exception out of session.get
FairSpec ==
    /\ Spec
    /\ WF_vars(SendRequest)
    /\ WF_vars(ReceiveException)

----------------------------------------------------------------------------
(* Properties of get_expiry_dates. *)

Range(s) == {s[i] : i \in 1..Len(s)}

\* the dates printed, in the order printed
Emitted ==
    LET ds == SelectSeq(stdout, LAMBDA l : l.k = "date")
    IN  [i \in 1..Len(ds) |-> ds[i].s]

\* the expiration dates of the records received, in arrival order
RawDates ==
    LET rs == AllRecords(chain)
    IN  [i \in 1..Len(rs) |-> rs[i].expiration_date]

\* the records received that the date range keeps, in arrival order
Kept == SelectSeq(RawDates, LAMBDA e : e # NoDate /\ InRange(e))

\* every response so far reported OK and nothing raised an exception
AllOK ==
    /\ \A i \in 1..Len(chain) : chain[i].kind = "ok"
    /\ ExceptionLine \notin Range(stdout)

\* the fetch ran to the end of a chain of OK pages
Succeeded == prog = "expiry" /\ pc = "done" /\ chain # <<>> /\ AllOK

\* C1 as claimed: over a chain of OK pages the output is the concatenation of
\* the pages' (in-range) records in arrival order, duplicates kept, unsorted.
C1_Original == Succeeded => Emitted = Kept

\* C1 as amended: over a chain of OK pages get_expiry_dates prints each
\* distinct in-range expiration date of the pages exactly once, in ascending
\* string order, between the header lines and the total.
C1_SortedDistinct ==
    Succeeded =>
        /\ \A i, j \in 1..Len(Emitted) : i < j => StrLT(Emitted[i], Emitted[j])
        /\ Range(Emitted) = Range(Kept)
        /\ Len(stdout) = Len(Emitted) + 3
        /\ stdout[Len(stdout)] = Line("total", "", <<>>, Len(Emitted))

\* two pages or more, a date received twice, and an arrival order that is
\* not the sorted order
C1_Witness ==
    /\ Succeeded
    /\ Len(chain) >= 2
    /\ Len(Kept) = 3
    /\ Len(Emitted) = 2
    /\ StrLT(Kept[2], Kept[1])

\* the last response reported a status other than OK
BadStop == prog = "expiry" /\ chain # <<>> /\ chain[Len(chain)].kind = "bad"

\* C2 as claimed: a page that is not OK makes the fetch fail with a BadStatus
\* error the caller observes, no later page is requested, no data is output.
C2_Original ==
    BadStop =>
        /\ outcome = "BadStatus"
        /\ requests = Len(chain)
        /\ Emitted = <<>>

\* C2 as amended: a page that is not OK makes get_expiry_dates print the
\* status and return None without raising; no later page is requested and
\* nothing but that one line is printed, whatever was accumulated.
C2_PrintsAndReturns ==
    BadStop =>
        /\ pc = "done"
        /\ outcome = "returned"
        /\ stdout = <<StatusLine(chain[Len(chain)].status)>>
        /\ requests = Len(chain)
        /\ ~ENABLED SendRequest

\* a bad status on a later page, after dates were accumulated
C2_Witness == BadStop /\ Len(chain) >= 2 /\ expiry_dates # {}

----------------------------------------------------------------------------
(* Properties of get_multiple_snapshots. *)

Returned == prog = "snapshots" /\ outcome = "returned"

\* item i failed as the claim counts failure: an exception, or a status
\* other than OK
Failed(i) == answer[i].kind = "exception" \/ answer[i].status # "OK"

\* item i came back OK with null results
NullOK(i) == ~Failed(i) /\ answer[i].results.isNone

\* C3 as claimed: K items of which M fail give exactly K - M records.
C3_Original ==
    Returned =>
        Len(snapshots) = Len(contracts) - Cardinality({i \in Items : Failed(i)})

\* C3 as amended: get_multiple_snapshots returns, never raising, one record
\* per item whose response is OK with results that are not null, in input
\* order: K - M records, M counting the items that fail and those whose OK
\* response has no results.
C3_OnePerGoodItem ==
    Returned =>
        LET good == {i \in Items : ~Failed(i) /\ ~NullOK(i)}
        IN  /\ Len(snapshots) = Len(contracts) - Cardinality(Items \ good)
            /\ \A i \in good :
                 Cardinality({j \in 1..Len(snapshots) :
                     snapshots[j] = Snapshot(contracts[i].ticker)}) = 1
            /\ \A j \in 1..Len(snapshots) :
                 \E i \in good : snapshots[j] = Snapshot(contracts[i].ticker)
            /\ \A j, k \in 1..Len(snapshots) :
                 j < k => snapshots[j].ticker < snapshots[k].ticker

\* an item that raised, an item that came back OK without results and an
\* item that succeeded, in one call that returned one record
C3_Witness ==
    /\ Returned
    /\ \E i \in Items : answer[i].kind = "exception"
    /\ \E i \in Items : NullOK(i)
    /\ \E i \in Items : ~Failed(i) /\ ~NullOK(i)
    /\ Len(snapshots) = 1

\* C4 as claimed: whatever the positive concurrency_limit, at most that many
\* requests are in flight.
C4_Original == \A concurrency_limit \in 1..MaxLimit : InFlight <= concurrency_limit

\* C4 as amended: there is no limit but the number of items: at most K
\* requests are in flight, and all K are dispatched before any is answered.
C4_AllDispatchedFirst ==
    /\ InFlight <= Len(contracts)
    /\ (\E i \in Items : task[i] = "done") => (\A j \in Items : task[j] # "pending")

\* more items than any limit considered, all in flight together
C4_Witness == Len(contracts) > MaxLimit /\ InFlight = Len(contracts)

----------------------------------------------------------------------------
(* More properties of get_expiry_dates. *)

\* the server's chain never ends
Endless == prog = "expiry" /\ chainLen = 0

\* C5 as claimed: on a chain that never ends there is a max_pages after
\* which no request is issued, the fetch failing with PaginationLimitExceeded.
C5_Original ==
    Endless =>
        \E max_pages \in 1..MaxLimit :
            /\ requests <= max_pages
            /\ (requests = max_pages /\ Len(chain) = max_pages /\ AllOK)
                   => outcome = "PaginationLimitExceeded"

\* C5 as amended: get_expiry_dates has no page limit: on a chain that never
\* ends, as long as every page is OK and nothing raises, it neither stops nor
\* fails, and after page n it is about to request page n + 1.
C5_NoPageLimit ==
    (Endless /\ AllOK) =>
        /\ pc # "done"
        /\ outcome = "running"
        /\ stdout = <<>>
        /\ pc = "fetching" => next_url = [cursor |-> requests + 1, key |-> TRUE]

\* more requests than any limit considered, and still running
C5_Witness == Endless /\ AllOK /\ requests > MaxLimit /\ outcome = "running"

\* year, month and day as one number
Ordinal(dt) == dt.y * 10000 + dt.m * 100 + dt.d

\* no record received has an expiration date that does not parse
AllParse == \A i \in 1..Len(RawDates) : RawDates[i] = NoDate \/ strptime(RawDates[i]).ok

\* C6: every date in the accumulator parses and lies in [START_DATE,
\* END_DATE], both ends included; a record out of range or without a date is
\* not added, and it neither fails the fetch (nothing is raised, the run ends
\* with the report) nor has a page requested twice.
C6_InRangeOnly ==
    prog = "expiry" =>
        /\ \A e \in expiry_dates :
             /\ strptime(e).ok
             /\ Ordinal(strptime(START_DATE)) <= Ordinal(strptime(e))
             /\ Ordinal(strptime(e)) <= Ordinal(strptime(END_DATE))
        /\ expiry_dates \subseteq Range(RawDates)
        /\ ((\A i \in 1..Len(chain) : chain[i].kind = "ok") /\ AllParse) =>
             /\ ExceptionLine \notin Range(stdout)
             /\ requests = Len(chain) + (IF pc = "waiting" THEN 1 ELSE 0)
             /\ pc = "done" => stdout[Len(stdout)].k = "total"

\* a finished fetch that kept the date on the end of the range and dropped
\* a date past it and a record without a date
C6_Witness ==
    /\ Succeeded
    /\ expiry_dates = {END_DATE}
    /\ D_1220 \in Range(RawDates)
    /\ NoDate \in Range(RawDates)

C7_Safety ==
    (prog = "expiry" /\ chainLen # 0 /\ AllOK) =>
        /\ requests = Len(chain) + (IF pc = "waiting" THEN 1 ELSE 0)
        /\ \A i \in 1..(Len(chain) - 1) : chain[i].next_url # NoUrl
        /\ (pc = "done") <=> (chain # <<>> /\ chain[Len(chain)].next_url = NoUrl)
        /\ pc = "done" => (requests = chainLen /\ Len(chain) = chainLen)

----------------------------------------------------------------------------
(* Properties of the WebSocket callbacks. *)

\* what the handler of a T or Q record is to be called with
ExpectedCall(e) ==
    IF e.ev = "T"
    THEN [h |-> "trade", symbol |-> e.sym, a |-> e.p, b |-> e.s]
    ELSE [h |-> "quote", symbol |-> e.sym, a |-> e.bp, b |-> e.ap]

\* C8: in a frame that is a list of records, each record tagged T reaches
\* the trade handler (with sym, p, s), each record tagged Q the quote
\* handler, by its tag alone; a record with another tag or none reaches no
\* handler, and nothing is raised.
C8_RoutedByTag ==
    (prog = "websocket" /\ frame.valid /\ frame.isList
       /\ \A i \in 1..Len(frame.items) : frame.items[i].isMap) =>
        LET tagged == SelectSeq(frame.items, LAMBDA e : e.ev \in {"T", "Q"})
        IN  /\ ~ws_err
            /\ calls = [i \in 1..Len(tagged) |-> ExpectedCall(tagged[i])]

\* a frame of a record without a tag and a record tagged T that holds the
\* fields of a quote: one call, of the trade handler
C8_Witness ==
    /\ prog = "websocket"
    /\ frame.isList
    /\ frame.items = <<Untagged, OddTrade>>
    /\ Len(calls) = 1
    /\ calls[1].h = "trade"
    /\ ~ws_err

\* C10: on every connection opened, exactly one auth message and exactly one
\* subscribe message are sent, and no subscribe goes before the auth.
C10_AuthThenSubscribe ==
    prog = "websocket" =>
        /\ ws_open => wire # <<>>
        /\ \A c \in 1..Len(wire) :
             LET sent == wire[c]
                 at(a) == {i \in 1..Len(sent) : sent[i].action = a}
             IN  /\ Cardinality(at("auth")) = 1
                 /\ Cardinality(at("subscribe")) = 1
                 /\ \A j \in at("subscribe") : \E i \in at("auth") : i < j

\* a second connection has been opened
C10_Witness == prog = "websocket" /\ ws_open /\ Len(wire) = 2

----------------------------------------------------------------------------
(* Properties of get_option_ticker. *)

\* C9: ValueError when option_type is neither call nor put or when the
\* listing is empty, RuntimeError only when the API call itself fails,
\* otherwise the ticker of the first contract listed.
C9_Docstring ==
    (prog = "ticker" /\ tk.called) =>
        LET valid == lower(tk.option_type) \in {CALL, PUT}
            key == tk.api_key # "None" \/ tk.env_key # "None"
        IN  /\ ~valid => tk.result.raised = "ValueError"
            /\ (valid /\ key /\ ~tk.listing.raises /\ tk.listing.tickers = <<>>)
                 => tk.result.raised = "ValueError"
            /\ tk.result.raised = "RuntimeError" => tk.listing.raises
            /\ (valid /\ key /\ ~tk.listing.raises /\ tk.listing.tickers # <<>>)
                 => tk.result = [raised |-> "none", value |-> tk.listing.tickers[1]]

----------------------------------------------------------------------------
(* Properties of get_option_contracts. *)

RECURSIVE AllContracts(_, _)
\* the contracts of pages 1..n of a listing, in order
AllContracts(sizes, n) ==
    IF n = 0 THEN <<>>
    ELSE AllContracts(sizes, n - 1) \o PageContracts(sizes, n)

\* C11: for a listing that spans several pages linked by next_url,
\* get_option_contracts returns the contracts of every page, not only those
\* of the first.
C11_AllPages ==
    (prog = "contracts" /\ oc.called /\ oc.answer.status = "OK") =>
        /\ ~oc.returned.isNone
        /\ oc.returned.items = AllContracts(oc.sizes, Len(oc.sizes))

----------------------------------------------------------------------------
(* Properties of the order of requests and of whole frames. *)

\* C12: the page requests of get_expiry_dates are strictly sequential: the
\* requests issued exceed the responses received by one while a request is
\* in flight and by none otherwise, and a request in flight was issued after
\* the response before it was received and processed, for the URL made of
\* that response's cursor.
C12_Sequential ==
    prog = "expiry" =>
        /\ requests - Len(chain) = (IF pc = "waiting" THEN 1 ELSE 0)
        /\ pc = "waiting" =>
             /\ expiry_dates = Range(Kept)
             /\ IF chain = <<>>
                THEN next_url = FirstUrl
                ELSE /\ chain[Len(chain)].kind = "ok"
                     /\ chain[Len(chain)].next_url # NoUrl
                     /\ next_url.cursor = chain[Len(chain)].next_url.cursor
                     /\ next_url.cursor = Len(chain) + 1

\* the third request in flight, dates of the first two pages accumulated
C12_Witness ==
    /\ prog = "expiry"
    /\ pc = "waiting"
    /\ requests = 3
    /\ Len(chain) = 2
    /\ expiry_dates # {}

\* C13: of a frame that is a list, every record tagged T reaches the trade
\* handler and every record tagged Q the quote handler, once each and in
\* frame order, whatever the other items are, an item that is no mapping
\* included; and on_message raises nothing.
C13_WholeFrame ==
    (prog = "websocket" /\ frame.valid /\ frame.isList) =>
        LET tagged == SelectSeq(frame.items,
                                LAMBDA e : e.isMap /\ e.ev \in {"T", "Q"})
        IN  calls = [i \in 1..Len(tagged) |-> ExpectedCall(tagged[i])]

----------------------------------------------------------------------------
(* Properties of fetch_financials.main. *)

\* POLYGON_API_KEY is missing or empty once the .env file has been read
KeyMissing ==
    \/ fin.env_key = ""
    \/ fin.env_key = "unset" /\ ~fin.has_dotenv
    \/ fin.env_key = "unset" /\ fin.dotenv_key \in {"unset", ""}

\* C14: main writes msft-financials.json only in a run that returns 0: with
\* the key missing or empty it returns 1 without any request, on an HTTP
\* error it returns 2, on a URL error 3, and in these three cases the file
\* is as it was.
C14_WritesOnlyOnZero ==
    (prog = "financials" /\ fin.ran) =>
        /\ fin.file # fin.before => fin.ret = "0"
        /\ KeyMissing =>
             (fin.ret = "1" /\ fin.requests = 0 /\ fin.file = fin.before)
        /\ (~KeyMissing /\ fin.fetch.kind = "HTTPError") =>
             (fin.ret = "2" /\ fin.file = fin.before)
        /\ (~KeyMissing /\ fin.fetch.kind = "URLError") =>
             (fin.ret = "3" /\ fin.file = fin.before)
        /\ fin.ret = "0" => (fin.file = fin.fetch.payload /\ fin.requests = 1)

\* a run that met an HTTP error, the key coming from the .env file, and
\* left the file of an earlier run as it was
C14_Witness ==
    /\ prog = "financials"
    /\ fin.ran
    /\ fin.env_key = "unset"
    /\ fin.fetch.kind = "HTTPError"
    /\ fin.ret = "2"
    /\ fin.before = "old"
    /\ fin.file = "old"

====
